---- MODULE Spec2Model ----
(***************************************************************************)
(* Model of ai_and_data/openai_generate_vector.py: a straight-line script   *)
(* that sets four attributes of the openai module, calls                   *)
(* openai.embeddings.create once with a one-element input list, reads       *)
(* response.data[0].embedding and prints it.                                *)
(*                                                                         *)
(* One action per statement of the script.  The blocking call of lines     *)
(* 10-13 is split into the moment the request leaves the process and the   *)
(* moment the call returns or raises; the remote service's answer is an    *)
(* input drawn from bounded sets.  The literals the source marks           *)
(* "Replace with ..." (key, endpoint, deployment) and the text constant    *)
(* are drawn in Init from small sets that contain the source's values.     *)
(***************************************************************************)
EXTENDS Integers, Sequences, FiniteSets, TLC

VARIABLES
    lit,        \* the literal values written in the source file
    pc,         \* the statement the interpreter executes next
    cfg,        \* openai.api_type / api_key / azure_endpoint / api_version
    text,       \* the variable text
    requests,   \* the outbound requests made so far, in order
    response,   \* the variable response: <<>> unbound, <<data>> bound
    embedding,  \* the variable embedding: <<>> unbound, <<vector>> bound
    raised,     \* the exception raised in the script: <<>> or <<name>>
    stdout,     \* the lines written to standard output
    stderr,     \* the tracebacks written to standard error
    steps       \* the statements executed so far, in order

vars == <<lit, pc, cfg, text, requests, response, embedding, raised,
          stdout, stderr, steps>>

----------------------------------------------------------------------------
(* Bounds *)

MaxEntries == 2
MaxDim == 2
MaxCalls == 3

----------------------------------------------------------------------------
(* Values *)

Unset == "<unset>"

ApiTypeLit == "azure"
ApiVersionLit == "2023-05-15"

ApiKeys == {"YOUR_API_KEY", "sk-live"}
Endpoints == {"https://YOUR_AZURE_OPENAI_ENDPOINT/", "https://acme.openai.azure.com/"}
Texts == {"Mountains are beautiful in the fall.", ""}
Models == {"ada-embedding-deployment", "text-embedding-3-small"}

\* A float is modelled by the number of halves it holds: -1 is -0.5,
\* 0 is 0.0, 3 is 1.5, 4 is 2.0.
Floats == {-1, 4}

RECURSIVE SeqsUpTo(_, _)
SeqsUpTo(S, n) ==
    IF n = 0 THEN {<<>>}
    ELSE LET shorter == SeqsUpTo(S, n - 1)
         IN  shorter \cup {Append(s, x) : s \in shorter, x \in S}

Vectors == SeqsUpTo(Floats, MaxDim)
Entries == {[embedding |-> v] : v \in Vectors}
DataLists == SeqsUpTo(Entries, MaxEntries)

\* The exceptions openai.embeddings.create raises for the failure modes:
\* bad credential, bad endpoint or unreachable network, deployment not
\* found, and a transient failure.
CallErrors == {"AuthenticationError", "APIConnectionError", "NotFoundError",
               "APITimeoutError"}
TransientErrors == {"APITimeoutError"}

----------------------------------------------------------------------------
(* str() of a list of floats, as print writes it *)

Abs(n) == IF n < 0 THEN 0 - n ELSE n

FloatRepr(h) ==
    (IF h < 0 THEN "-" ELSE "")
        \o ToString(Abs(h) \div 2)
        \o (IF Abs(h) % 2 = 0 THEN ".0" ELSE ".5")

RECURSIVE JoinRepr(_)
JoinRepr(v) ==
    IF Len(v) = 0 THEN ""
    ELSE IF Len(v) = 1 THEN FloatRepr(v[1])
    ELSE FloatRepr(v[1]) \o ", " \o JoinRepr(Tail(v))

ListStr(v) == "[" \o JoinRepr(v) \o "]"

----------------------------------------------------------------------------
(* The request of lines 10-13 *)

\* Variant: empty strings are filtered out of the input list.
RequestBody_dropEmpty(t, m) ==
    [input |-> IF t = "" THEN <<>> ELSE <<t>>, model |-> m]

RequestBody(t, m) == [input |-> <<t>>, model |-> m]

\* Variant: the deployment name is folded into the endpoint parameter.
MakeRequest_deployUrl(c, t, m) ==
    [api_type       |-> c.api_type,
     api_key        |-> c.api_key,
     azure_endpoint |-> c.azure_endpoint \o "openai/deployments/" \o m,
     api_version    |-> c.api_version,
     body           |-> RequestBody(t, m)]

MakeRequest(c, t, m) ==
    [api_type       |-> c.api_type,
     api_key        |-> c.api_key,
     azure_endpoint |-> c.azure_endpoint,
     api_version    |-> c.api_version,
     body           |-> RequestBody(t, m)]

----------------------------------------------------------------------------
(* An exception no handler catches: traceback on stderr, nothing on stdout *)

\* Variant: a transient failure of the call is retried.
Unhandled_retry(kind) ==
    /\ pc' = IF kind \in TransientErrors THEN "L10" ELSE "crashed"
    /\ stderr' = IF kind \in TransientErrors THEN stderr
                 ELSE Append(stderr, kind)
    /\ UNCHANGED stdout

\* Variant: every failure of the call is retried until the call succeeds.
Unhandled_retryAll(kind) ==
    /\ pc' = IF kind \in CallErrors THEN "L10" ELSE "crashed"
    /\ stderr' = IF kind \in CallErrors THEN stderr
                 ELSE Append(stderr, kind)
    /\ UNCHANGED stdout

\* Variant: the exception is caught and reported on standard output.
Unhandled_caught(kind) ==
    /\ pc' = "done"
    /\ stdout' = Append(stdout, "Error: " \o kind)
    /\ UNCHANGED stderr

Unhandled(kind) ==
    /\ pc' = "crashed"
    /\ stderr' = Append(stderr, kind)
    /\ UNCHANGED stdout

----------------------------------------------------------------------------

Init ==
    /\ lit \in [api_key : ApiKeys, azure_endpoint : Endpoints,
                text : Texts, model : Models]
    /\ pc = "L1"
    /\ cfg = [api_type |-> Unset, api_key |-> Unset,
              azure_endpoint |-> Unset, api_version |-> Unset]
    /\ text = Unset
    /\ requests = <<>>
    /\ response = <<>>
    /\ embedding = <<>>
    /\ raised = <<>>
    /\ stdout = <<>>
    /\ stderr = <<>>
    /\ steps = <<>>

\* line 1: import openai
Import ==
    /\ pc = "L1"
    /\ pc' = "L4"
    /\ steps' = Append(steps, "import")
    /\ UNCHANGED <<lit, cfg, text, requests, response, embedding, raised,
                   stdout, stderr>>

\* line 4: openai.api_type = "azure"
SetApiType ==
    /\ pc = "L4"
    /\ cfg' = [cfg EXCEPT !.api_type = ApiTypeLit]
    /\ pc' = "L5"
    /\ steps' = Append(steps, "api_type")
    /\ UNCHANGED <<lit, text, requests, response, embedding, raised,
                   stdout, stderr>>

\* Variant: the key is validated when it is set.
SetApiKey_validated ==
    /\ pc = "L5"
    /\ IF lit.api_key = "YOUR_API_KEY"
       THEN /\ raised' = <<"ValueError">>
            /\ Unhandled("ValueError")
            /\ steps' = Append(steps, "raise")
            /\ UNCHANGED cfg
       ELSE /\ cfg' = [cfg EXCEPT !.api_key = lit.api_key]
            /\ pc' = "L6"
            /\ steps' = Append(steps, "api_key")
            /\ UNCHANGED <<raised, stdout, stderr>>
    /\ UNCHANGED <<lit, text, requests, response, embedding>>

\* line 5: openai.api_key = "YOUR_API_KEY"
SetApiKey ==
    /\ pc = "L5"
    /\ cfg' = [cfg EXCEPT !.api_key = lit.api_key]
    /\ pc' = "L6"
    /\ steps' = Append(steps, "api_key")
    /\ UNCHANGED <<lit, text, requests, response, embedding, raised,
                   stdout, stderr>>

\* line 6: openai.azure_endpoint = "https://YOUR_AZURE_OPENAI_ENDPOINT/"
SetAzureEndpoint ==
    /\ pc = "L6"
    /\ cfg' = [cfg EXCEPT !.azure_endpoint = lit.azure_endpoint]
    /\ pc' = "L7"
    /\ steps' = Append(steps, "azure_endpoint")
    /\ UNCHANGED <<lit, text, requests, response, embedding, raised,
                   stdout, stderr>>

\* Variant: the assignment of line 7 is missing.
SetApiVersion_skipped ==
    /\ pc = "L7"
    /\ pc' = "L9"
    /\ steps' = Append(steps, "api_version")
    /\ UNCHANGED <<lit, cfg, text, requests, response, embedding, raised,
                   stdout, stderr>>

\* line 7: openai.api_version = "2023-05-15"
SetApiVersion ==
    /\ pc = "L7"
    /\ cfg' = [cfg EXCEPT !.api_version = ApiVersionLit]
    /\ pc' = "L9"
    /\ steps' = Append(steps, "api_version")
    /\ UNCHANGED <<lit, text, requests, response, embedding, raised,
                   stdout, stderr>>

\* line 9: text = "Mountains are beautiful in the fall."
SetText ==
    /\ pc = "L9"
    /\ text' = lit.text
    /\ pc' = "L10"
    /\ steps' = Append(steps, "text")
    /\ UNCHANGED <<lit, cfg, requests, response, embedding, raised,
                   stdout, stderr>>

\* lines 10-13: openai.embeddings.create(input=[text], model=...) is
\* entered; the request leaves the process and the script blocks.
IssueRequest ==
    /\ pc = "L10"
    /\ Len(requests) < MaxCalls
    /\ requests' = Append(requests, MakeRequest(cfg, text, lit.model))
    /\ pc' = "waiting"
    /\ steps' = Append(steps, "request")
    /\ UNCHANGED <<lit, cfg, text, response, embedding, raised,
                   stdout, stderr>>

\* lines 10-13: the call returns and response is bound to its result.
CallReturns ==
    /\ pc = "waiting"
    /\ \E data \in DataLists : response' = <<data>>
    /\ pc' = "L14"
    /\ steps' = Append(steps, "response")
    /\ UNCHANGED <<lit, cfg, text, requests, embedding, raised,
                   stdout, stderr>>

\* lines 10-13: the call raises; nothing in the script catches it.
CallFails ==
    /\ pc = "waiting"
    /\ \E kind \in CallErrors :
          /\ raised' = <<kind>>
          /\ Unhandled(kind)
    /\ steps' = Append(steps, "raise")
    /\ UNCHANGED <<lit, cfg, text, requests, response, embedding>>

\* Variant: the last entry is read instead of the first (data[-1]).
ExtractEmbedding_last ==
    /\ pc = "L14"
    /\ IF Len(response[1]) = 0
       THEN /\ raised' = <<"IndexError">>
            /\ Unhandled("IndexError")
            /\ steps' = Append(steps, "raise")
            /\ UNCHANGED embedding
       ELSE /\ embedding' = <<response[1][Len(response[1])].embedding>>
            /\ pc' = "L15"
            /\ steps' = Append(steps, "extract")
            /\ UNCHANGED <<raised, stdout, stderr>>
    /\ UNCHANGED <<lit, cfg, text, requests, response>>

\* Variant: an empty result list yields an empty vector.
ExtractEmbedding_default ==
    /\ pc = "L14"
    /\ embedding' = IF Len(response[1]) = 0 THEN << <<>> >>
                    ELSE <<response[1][1].embedding>>
    /\ pc' = "L15"
    /\ steps' = Append(steps, "extract")
    /\ UNCHANGED <<lit, cfg, text, requests, response, raised,
                   stdout, stderr>>

\* line 14: embedding = response.data[0].embedding
ExtractEmbedding ==
    /\ pc = "L14"
    /\ IF Len(response[1]) = 0
       THEN /\ raised' = <<"IndexError">>
            /\ Unhandled("IndexError")
            /\ steps' = Append(steps, "raise")
            /\ UNCHANGED embedding
       ELSE /\ embedding' = <<response[1][1].embedding>>
            /\ pc' = "L15"
            /\ steps' = Append(steps, "extract")
            /\ UNCHANGED <<raised, stdout, stderr>>
    /\ UNCHANGED <<lit, cfg, text, requests, response>>

\* Variant: one line is printed per element of the vector.
PrintEmbedding_perElement ==
    /\ pc = "L15"
    /\ stdout' = stdout \o [i \in 1..Len(embedding[1]) |->
                                FloatRepr(embedding[1][i])]
    /\ pc' = "done"
    /\ steps' = Append(steps, "print")
    /\ UNCHANGED <<lit, cfg, text, requests, response, embedding, raised,
                   stderr>>

\* line 15: print(embedding)
PrintEmbedding ==
    /\ pc = "L15"
    /\ stdout' = Append(stdout, ListStr(embedding[1]))
    /\ pc' = "done"
    /\ steps' = Append(steps, "print")
    /\ UNCHANGED <<lit, cfg, text, requests, response, embedding, raised,
                   stderr>>

Next ==
    \/ Import
    \/ SetApiType
    \/ SetApiKey
    \/ SetAzureEndpoint
    \/ SetApiVersion
    \/ SetText
    \/ IssueRequest
    \/ CallReturns
    \/ CallFails
    \/ ExtractEmbedding
    \/ PrintEmbedding

Spec == Init /\ [][Next]_vars

\* The interpreter executes the next statement, and the remote call
\* eventually returns or raises.
LiveSpec == Spec /\ WF_vars(Next)

----------------------------------------------------------------------------
(* Properties *)

LiteralConfig ==
    [api_type |-> ApiTypeLit, api_key |-> lit.api_key,
     azure_endpoint |-> lit.azure_endpoint, api_version |-> ApiVersionLit]

LinearOrder ==
    <<"import", "api_type", "api_key", "azure_endpoint", "api_version",
      "text", "request", "response", "extract", "print">>

Terminated == pc \in {"done", "crashed"}

CallFailed == raised # <<>> /\ raised[1] \in CallErrors

\* C1: when the call has returned a result list with at least one entry,
\* the run does not fail, and once it is done standard output holds exactly
\* the textual form of entry 0's embedding, whatever the other entries are.
C1_PrintsEntryZero ==
    (response # <<>> /\ Len(response[1]) >= 1) =>
        /\ pc \in {"L14", "L15", "done"}
        /\ raised = <<>>
        /\ (pc = "done" => stdout = <<ListStr(response[1][1].embedding)>>)
        /\ (pc # "done" => stdout = <<>>)

C1_Witness ==
    /\ pc = "done"
    /\ Len(response[1]) = 2
    /\ response[1][1].embedding = <<-1, 4>>
    /\ response[1][2].embedding = <<4>>
    /\ stdout = <<"[-0.5, 2.0]">>

\* C2: when the call has returned an empty result list, reading entry 0
\* raises IndexError, the run ends abnormally and standard output stays
\* empty.
C2_EmptyListFails ==
    (response # <<>> /\ Len(response[1]) = 0) =>
        /\ \/ pc = "L14"
           \/ pc = "crashed" /\ raised = <<"IndexError">>
        /\ embedding = <<>>
        /\ stdout = <<>>

C2_Witness ==
    /\ response = << <<>> >>
    /\ pc = "crashed"
    /\ raised = <<"IndexError">>
    /\ stderr = <<"IndexError">>
    /\ stdout = <<>>

\* C3: every outbound request carries an input list of exactly one string,
\* the text constant, whatever that constant is; a run past line 10 has
\* sent such a request.
C3_SingleInput ==
    /\ \A i \in DOMAIN requests :
          /\ Len(requests[i].body.input) = 1
          /\ requests[i].body.input = <<lit.text>>
    /\ (pc \in {"waiting", "L14", "L15", "done"} => Len(requests) = 1)

C3_Witness ==
    /\ Len(requests) = 1
    /\ lit.text = ""
    /\ requests[1].body.input = <<"">>

\* C4: a failed call, transient or not, is not retried: the run has made
\* exactly one call attempt and is abnormally terminated right after the
\* failure, with no result bound.
C4_NoRetry ==
    /\ Len(requests) <= 1
    /\ CallFailed =>
          /\ Len(requests) = 1
          /\ pc = "crashed"
          /\ stderr = raised
          /\ response = <<>>

C4_Witness ==
    /\ raised = <<"APITimeoutError">>
    /\ pc = "crashed"
    /\ Len(requests) = 1

\* C5: whatever exception is raised (a failure of the call, or IndexError
\* on an empty result list), the run is abnormally terminated, standard
\* output is empty, and the run never leaves that state for Done.
C5_FailuresPropagate ==
    /\ [](raised # <<>> =>
            /\ pc = "crashed"
            /\ stdout = <<>>
            /\ stderr = raised)
    /\ [][pc = "crashed" => pc' = "crashed" /\ stdout' = <<>>]_vars

C5_Witness ==
    /\ raised = <<"NotFoundError">>
    /\ pc = "crashed"
    /\ stdout = <<>>

\* C6: at most one outbound call and at most one line of output; Done means
\* exactly one of each; a line is written only after the call succeeded.
C6_OneCallOneLine ==
    /\ Len(requests) <= 1
    /\ Len(stdout) <= 1
    /\ (pc = "done" => Len(requests) = 1 /\ Len(stdout) = 1)
    /\ (stdout # <<>> => Len(requests) = 1 /\ response # <<>> /\ raised = <<>>)

C6_Witness ==
    /\ pc = "done"
    /\ Len(requests) = 1
    /\ Len(stdout) = 1
    /\ Len(embedding[1]) = 2

\* C7: apart from its model parameter, every outbound request is fixed by
\* the text constant and the connection literals alone: its input list and
\* api_type, credential, endpoint and api_version do not vary with the
\* deployment/model literal, which appears only as the model parameter.
C7_ModelOnlyInModelParam ==
    \A i \in DOMAIN requests :
        /\ requests[i].body.model = lit.model
        /\ [requests[i] EXCEPT !.body.model = ""] =
              [api_type       |-> ApiTypeLit,
               api_key        |-> lit.api_key,
               azure_endpoint |-> lit.azure_endpoint,
               api_version    |-> ApiVersionLit,
               body           |-> [input |-> <<lit.text>>, model |-> ""]]

C7_Witness ==
    /\ Len(requests) = 1
    /\ lit.model = "text-embedding-3-small"
    /\ requests[1].body.model = "text-embedding-3-small"

\* C8: the statements run in the order configure, request, extract, print:
\* a request exists only when all four settings are in place and it carries
\* them, embedding is bound only after a successful return, output only
\* after the extraction, and a run that is Done ran every step once.
C8_LinearFlow ==
    /\ (requests # <<>> =>
            /\ cfg = LiteralConfig
            /\ text = lit.text
            /\ requests[1].api_type = "azure"
            /\ requests[1].api_version = "2023-05-15"
            /\ requests[1].api_key = lit.api_key
            /\ requests[1].azure_endpoint = lit.azure_endpoint)
    /\ (response # <<>> => requests # <<>>)
    /\ (embedding # <<>> => response # <<>> /\ raised = <<>>)
    /\ (stdout # <<>> => embedding # <<>>)
    /\ (pc = "done" => steps = LinearOrder)
    /\ LET n == Len(steps)
           ran == IF n > 0 /\ steps[n] = "raise"
                  THEN SubSeq(steps, 1, n - 1) ELSE steps
       IN  /\ Len(ran) <= Len(LinearOrder)
           /\ ran = SubSeq(LinearOrder, 1, Len(ran))

C8_Witness ==
    /\ pc = "done"
    /\ steps = LinearOrder
    /\ cfg = LiteralConfig
    /\ stdout # <<>>

\* C9: each configuration field, once written, keeps its value through the
\* request, extract and print steps and through any failure; the values
\* stored are the literals as given, and no exception is raised before the
\* request has been sent.
C9_ConfigWrittenOnce ==
    /\ [][\A f \in DOMAIN cfg : cfg[f] # Unset => cfg'[f] = cfg[f]]_vars
    /\ [](pc \notin {"L1", "L4", "L5", "L6", "L7"} => cfg = LiteralConfig)
    /\ [](raised # <<>> => Len(requests) = 1 /\ cfg = LiteralConfig)

C9_Witness ==
    /\ lit.api_key = "YOUR_API_KEY"
    /\ raised = <<"AuthenticationError">>
    /\ pc = "crashed"
    /\ cfg = LiteralConfig
    /\ Len(requests) = 1

\* C10: every run eventually reaches Done or the abnormally terminated
\* state, the two are told apart by what was written, and no step is taken
\* from either.
C10_Terminates ==
    /\ <>Terminated
    /\ [][~Terminated]_vars
    /\ [](pc = "done" =>
            raised = <<>> /\ stderr = <<>> /\ Len(stdout) = 1
            /\ response # <<>>)
    /\ [](pc = "crashed" => raised # <<>> /\ stdout = <<>>)

C10_Witness ==
    /\ pc = "crashed"
    /\ raised = <<"APIConnectionError">>
    /\ Len(requests) = 1

====
